---- MODULE Spec2Model ----
(***************************************************************************)
(* A model of the mNotify SDK's request pipeline: the HttpClient transport *)
(* (URL building, timeout, 429 retry, error mapping), the Result type, the *)
(* MNotifyError type and the resource operations built on the transport.   *)
(*                                                                         *)
(* One behaviour is one client (constructed in Init) serving one call of   *)
(* one operation.  Time is kept relative: a timer or a sleep is a delay in *)
(* milliseconds, and the step that lets it fire advances the clock by it.  *)
(***************************************************************************)
EXTENDS Integers, Sequences, FiniteSets, TLC

(***************************************************************************)
(* Bounds of the model.                                                    *)
(***************************************************************************)
\* the largest maxRetries a caller configures explicitly
MaxCfgRetries == 2
\* the largest retryCount a caller passes to requestSafe / request
MaxInitRetry == 1

(***************************************************************************)
(* JavaScript values.  A JSON value is a record tagged with its type; an   *)
(* object's val is a record holding exactly the keys that are present.     *)
(***************************************************************************)
Undefined == [type |-> "undefined"]
JNull == [type |-> "null"]
JStr(s) == [type |-> "string", val |-> s]
JNum(n) == [type |-> "number", val |-> n]
JBool(b) == [type |-> "boolean", val |-> b]
JArr(a) == [type |-> "array", val |-> a]
JObj(r) == [type |-> "object", val |-> r]
EmptyObj == JObj(<<>>)

\* obj[field] on any value the code reads a property of (undefined when absent)
Get(obj, field) ==
  IF obj.type = "object" /\ field \in DOMAIN obj.val THEN obj.val[field] ELSE Undefined

\* JavaScript truthiness, as used by `a || b` and `!a`
Truthy(v) ==
  CASE v.type = "undefined" -> FALSE
    [] v.type = "null" -> FALSE
    [] v.type = "boolean" -> v.val
    [] v.type = "number" -> v.val # 0
    [] v.type = "string" -> v.val # ""
    [] OTHER -> TRUE

\* a || b
OrElse(a, b) == IF Truthy(a) THEN a ELSE b

(***************************************************************************)
(* utils/validation.ts                                                     *)
(***************************************************************************)
isString(value) == value.type = "string"
isNumber(value) == value.type = "number"
isArray(value) == value.type = "array"
isObject(value) == value.type = "object"

\* what evaluating a piece of code comes to: a returned value or a thrown one
Return(v) == [kind |-> "return", value |-> v]
Throw(e) == [kind |-> "throw", value |-> e]

ValidationError(message, field) ==
  [name |-> "ValidationError", isError |-> TRUE, message |-> message, field |-> field]

RECURSIVE FirstMissing(_, _)
\* the first field of `fields` that is absent, undefined or null in obj ("" if none)
FirstMissing(obj, fields) ==
  IF fields = <<>> THEN ""
  ELSE IF Get(obj, Head(fields)).type \in {"undefined", "null"} THEN Head(fields)
  ELSE FirstMissing(obj, Tail(fields))

validateRequired(obj, fields) ==
  IF ~isObject(obj) THEN Throw(ValidationError("Expected object", ""))
  ELSE IF FirstMissing(obj, fields) # ""
    THEN Throw(ValidationError("Missing required field", FirstMissing(obj, fields)))
  ELSE Return(Undefined)

SMSRequired == <<"status", "code", "message", "summary">>
SummaryRequired ==
  <<"_id", "message_id", "type", "total_sent", "contacts", "total_rejected",
    "numbers_sent", "credit_used", "credit_left">>

validateSMSResponse(data) ==
  IF ~isObject(data) THEN Return(FALSE)
  ELSE IF validateRequired(data, SMSRequired).kind = "throw"
    THEN validateRequired(data, SMSRequired)
  ELSE IF ~isObject(Get(data, "summary")) THEN Return(FALSE)
  ELSE IF validateRequired(Get(data, "summary"), SummaryRequired).kind = "throw"
    THEN validateRequired(Get(data, "summary"), SummaryRequired)
  ELSE Return(
    /\ isString(Get(data, "status"))
    /\ isString(Get(data, "code"))
    /\ isString(Get(data, "message"))
    /\ isString(Get(Get(data, "summary"), "_id"))
    /\ isString(Get(Get(data, "summary"), "message_id"))
    /\ isString(Get(Get(data, "summary"), "type"))
    /\ isNumber(Get(Get(data, "summary"), "total_sent"))
    /\ isNumber(Get(Get(data, "summary"), "contacts"))
    /\ isNumber(Get(Get(data, "summary"), "total_rejected"))
    /\ isArray(Get(Get(data, "summary"), "numbers_sent"))
    /\ isNumber(Get(Get(data, "summary"), "credit_used"))
    /\ isNumber(Get(Get(data, "summary"), "credit_left")))

(***************************************************************************)
(* errors/MNotifyError.ts and types/Result.ts                              *)
(***************************************************************************)
MNotifyError(message, statusCode, data, context, cause) ==
  [name |-> "MNotifyError", isError |-> TRUE, message |-> message,
   statusCode |-> statusCode, data |-> data, context |-> context, cause |-> cause]

ok(value) == [success |-> TRUE, value |-> value]
err(error) == [success |-> FALSE, error |-> error]
isOk(r) == r.success
isErr(r) == ~r.success

\* the throwing bridge: an Ok gives its value, an Err throws its error
unwrapLosingFields(r) ==
  IF r.success THEN Return(r.value)
  ELSE Throw([name |-> "Error", isError |-> TRUE, message |-> r.error.message])
unwrap(r) == IF r.success THEN Return(r.value) ELSE Throw(r.error)

(***************************************************************************)
(* client/HttpClient.ts: configuration and URL building                    *)
(***************************************************************************)
DefaultMaxRetries == 3
DefaultTimeout == 10000

\* a non-empty URL text, kept parsed: scheme ("" when the text has none), origin
\* and the path segments the URL parser gives it ("https://host/api/" has the
\* segments <<"api", "">>, "https://host" has <<"">>)
UrlString(scheme, host, segs) ==
  [type |-> "url-string", scheme |-> scheme, host |-> host, segs |-> segs]

DefaultBaseUrl == UrlString("https", "api.mnotify.com", <<"api">>)

\* a descriptor path: leading slash or not, and its segments
Path(absolute, segs) == [absolute |-> absolute, segs |-> segs]

\* constructor(config)
HttpClient(config) ==
  [apiKey |-> config.apiKey,
   baseUrl |-> OrElse(config.baseUrl, DefaultBaseUrl),
   timeout |-> OrElse(config.timeout, JNum(DefaultTimeout)).val,
   maxRetries |-> OrElse(config.maxRetries, JNum(DefaultMaxRetries)).val]

TypeError(message) == [name |-> "TypeError", isError |-> TRUE, message |-> message]

\* new URL(path, base).pathname as a segment list: a path with a leading slash
\* replaces the base's path, any other path replaces the base's last segment
ResolvePath(baseSegs, path) ==
  IF path.absolute THEN path.segs
  ELSE SubSeq(baseSegs, 1, Len(baseSegs) - 1) \o path.segs

\* the query after searchParams.set('key', apiKey) and then one set per entry
\* of params, a later set replacing an earlier value of the same name
SearchParams(apiKey, params) ==
  IF params = Undefined THEN ("key" :> apiKey) ELSE params @@ ("key" :> apiKey)

buildUrl(self, path, params) ==
  IF self.baseUrl.scheme = "" THEN Throw(TypeError("Invalid URL"))
  ELSE Return([scheme |-> self.baseUrl.scheme,
               host |-> self.baseUrl.host,
               pathname |-> ResolvePath(self.baseUrl.segs, path),
               search |-> SearchParams(self.apiKey, params)])

\* body: config.data ? JSON.stringify(config.data) : undefined
\* (JSON.stringify throws a TypeError on a circular structure)
Circular == [type |-> "circular"]
SerializeBody(data) ==
  IF ~Truthy(data) THEN Return(Undefined)
  ELSE IF data = Circular THEN Throw(TypeError("Converting circular structure to JSON"))
  ELSE Return([type |-> "json-text", of |-> data])

(***************************************************************************)
(* client/HttpClient.ts: what requestSafe makes of a settled attempt       *)
(***************************************************************************)
NoContext == Undefined
NoCause == Undefined

AbortError == [name |-> "AbortError", isError |-> TRUE, message |-> "This operation was aborted"]
SyntaxError == [name |-> "SyntaxError", isError |-> TRUE, message |-> "Unexpected token"]
\* a thrown value that is no Error object
ThrownString == [name |-> "", isError |-> FALSE, message |-> ""]

\* the catch block
catchResultWrappingAll(error) ==
  IF error.isError /\ error.name = "AbortError"
    THEN err(MNotifyError("Request timeout", 408, Undefined, NoContext, NoCause))
  ELSE err(MNotifyError(IF error.isError THEN error.message ELSE "Network error",
                        0, Undefined, NoContext, NoCause))
catchResult(error) ==
  IF error.name = "MNotifyError" THEN err(error)
  ELSE IF error.isError /\ error.name = "AbortError"
    THEN err(MNotifyError("Request timeout", 408, Undefined, NoContext, NoCause))
  ELSE err(MNotifyError(IF error.isError THEN error.message ELSE "Network error",
                        0, Undefined, NoContext, NoCause))

NotJson == [type |-> "notjson"]

\* response.json().catch(() => ({}))
errorData(body) == IF body = NotJson THEN EmptyObj ELSE body

\* a response that is not ok and is not retried
errorResult(response, body) ==
  IF errorData(body).type \in {"null", "undefined"}
    THEN catchResult(TypeError("Cannot read properties of null"))
  ELSE err(MNotifyError(
         OrElse(Get(errorData(body), "message"), JStr(response.statusText)).val,
         response.status, errorData(body), NoContext, NoCause))

\* a response that is ok
successResultWrapped(body) ==
  IF body = NotJson THEN catchResult(SyntaxError) ELSE ok(JObj([data |-> body]))
successResult(body) ==
  IF body = NotJson THEN catchResult(SyntaxError) ELSE ok(body)

\* response.ok
ResponseOk(status) == status >= 200 /\ status <= 299

\* what reading the body of a response throws inside the try block, if anything:
\* response.json() on a 2xx body that is no JSON, errorData.message on null
ThrownReading(status, body) ==
  IF ResponseOk(status)
    THEN IF body = NotJson THEN SyntaxError ELSE Undefined
  ELSE IF errorData(body).type \in {"null", "undefined"}
    THEN TypeError("Cannot read properties of null")
  ELSE Undefined

\* the retry condition
retryOnAnyError(self, status, retryCount) ==
  ~ResponseOk(status) /\ retryCount < self.maxRetries
ShouldRetry(self, status, retryCount) ==
  status = 429 /\ retryCount < self.maxRetries

\* parseInt on the header texts of the model; nan stands for NaN
parseInt(text) ==
  CASE text = "1" -> [nan |-> FALSE, val |-> 1]
    [] text = "2" -> [nan |-> FALSE, val |-> 2]
    [] OTHER -> [nan |-> TRUE, val |-> 0]

\* parseInt(response.headers.get('retry-after') || '1') * 1000
retryAfter(header) ==
  [nan |-> parseInt(OrElse(header, JStr("1")).val).nan,
   val |-> parseInt(OrElse(header, JStr("1")).val).val * 1000]

\* the delay setTimeout gives a timer: 1 ms when the number is NaN or below 1
TimerDelay(ms) == IF ms.nan \/ ms.val < 1 THEN 1 ELSE ms.val

(***************************************************************************)
(* errors/errorContext.ts and the Result transformations it uses           *)
(***************************************************************************)
\* { ...this.context, ...context }
MergeContextOldWins(old, new) ==
  IF old = Undefined THEN new ELSE old @@ new
MergeContext(old, new) ==
  IF old = Undefined THEN new ELSE new @@ old

withContext(error, context) ==
  MNotifyError(error.message, error.statusCode, error.data,
               MergeContext(error.context, context), error.cause)

\* result.mapErr((error) => error.withContext(context))
annotateResultError(result, context) ==
  IF result.success THEN ok(result.value) ELSE err(withContext(result.error, context))

(***************************************************************************)
(* The resource operations: what each makes of the transport's Result      *)
(***************************************************************************)
\* toArray
toArrayIdentity(value) == value
toArray(value) == IF isArray(value) THEN value ELSE JArr(<<value>>)

\* SMSService.sendQuickBulkSMSSafe: the payload
SMSPayload(options) ==
  JObj([recipient |-> toArray(options.recipient),
        sender |-> options.sender,
        message |-> options.message,
        is_schedule |-> OrElse(options.is_schedule, JBool(FALSE)),
        schedule_date |-> OrElse(options.schedule_date, JStr(""))])

\* SMSService.sendQuickBulkSMSSafe: after the transport's Result
sendQuickBulkSMSSafeAfter(result) ==
  IF isErr(result) THEN Return(result)
  ELSE IF validateSMSResponse(result.value).kind = "throw"
    THEN validateSMSResponse(result.value)
  ELSE IF ~validateSMSResponse(result.value).value
    THEN Return(err(MNotifyError("Invalid SMS response format", 0,
                                 Undefined, NoContext, NoCause)))
  ELSE Return(ok(result.value))

\* ContactService: validateContact
validateContact(data) ==
  /\ isObject(data)
  /\ (isString(Get(data, "_id")) \/ isString(Get(data, "id")))
  /\ isString(Get(data, "phone"))

ContactId(data) ==
  IF isString(Get(data, "_id")) THEN Get(data, "_id")
  ELSE IF isString(Get(data, "id")) THEN Get(data, "id")
  ELSE JNull

\* ContactService: normalizeContact (JNull for null)
normalizeContact(data) ==
  IF ~isObject(data) THEN JNull
  ELSE IF ~Truthy(ContactId(data)) \/ ~isString(Get(data, "phone")) THEN JNull
  ELSE JObj([_id |-> ContactId(data),
             phone |-> Get(data, "phone"),
             firstname |-> IF isString(Get(data, "firstname"))
                             THEN Get(data, "firstname") ELSE JStr(""),
             lastname |-> IF isString(Get(data, "lastname"))
                            THEN Get(data, "lastname") ELSE JStr(""),
             title |-> IF isString(Get(data, "title")) THEN Get(data, "title") ELSE Undefined,
             email |-> IF isArray(Get(data, "email"))
                          /\ \A i \in DOMAIN Get(data, "email").val :
                               isString(Get(data, "email").val[i])
                         THEN Get(data, "email") ELSE Undefined,
             dbo |-> IF isString(Get(data, "dbo")) THEN Get(data, "dbo") ELSE Undefined])

ContactValidationContext ==
  [service |-> "ContactService", operation |-> "createContactSafe", stage |-> "validation"]

\* ContactService.createContactSafe: the rejection of a call without groupId
createContactMissingGroupAsTransportError ==
  err(MNotifyError("mNotify v2 requires groupId to create a contact. Pass createContactSafe(contact, groupId).",
                   0, Undefined,
                   [service |-> "ContactService", operation |-> "createContactSafe",
                    stage |-> "request", path |-> "/contact"],
                   NoCause))
createContactMissingGroup ==
  err(MNotifyError("mNotify v2 requires groupId to create a contact. Pass createContactSafe(contact, groupId).", 400, Undefined,
                   [service |-> "ContactService", operation |-> "createContactSafe",
                    stage |-> "validation", path |-> "/contact/{group_id}"],
                   NoCause))

\* ContactService.createContactSafe: after the transport's Result
createContactSafeAfter(transportResult) ==
  LET result == annotateResultError(transportResult,
                  [service |-> "ContactService", operation |-> "createContactSafe"])
  IN IF isErr(result) THEN Return(result)
     ELSE IF ~validateContact(result.value)
       THEN Return(err(MNotifyError("Invalid contact response format", 0, result.value,
                                    ContactValidationContext, NoCause)))
     ELSE IF ~Truthy(normalizeContact(result.value))
       THEN Return(err(MNotifyError("Invalid contact response format", 0, result.value,
                                    ContactValidationContext, NoCause)))
     ELSE Return(ok(normalizeContact(result.value)))

\* GroupService: (isString(a) && a) || (isString(b) && b) || null
FirstString(data, a, b) ==
  OrElse(IF isString(Get(data, a)) THEN Get(data, a) ELSE JBool(FALSE),
         OrElse(IF isString(Get(data, b)) THEN Get(data, b) ELSE JBool(FALSE), JNull))

\* GroupService: validateGroup
validateGroup(data) ==
  /\ isObject(data)
  /\ Truthy(FirstString(data, "id", "_id"))
  /\ Truthy(FirstString(data, "name", "group_name"))

\* GroupService: normalizeGroup (JNull for null)
normalizeGroup(data) ==
  IF ~isObject(data) THEN JNull
  ELSE IF ~Truthy(FirstString(data, "id", "_id"))
          \/ ~Truthy(FirstString(data, "name", "group_name")) THEN JNull
  ELSE JObj([id |-> FirstString(data, "id", "_id"),
             name |-> FirstString(data, "name", "group_name"),
             description |-> IF isString(Get(data, "description"))
                               THEN Get(data, "description") ELSE Undefined,
             contact_count |-> IF isNumber(Get(data, "contact_count"))
                                 THEN Get(data, "contact_count") ELSE JNum(0),
             created_at |-> IF isString(Get(data, "created_at"))
                              THEN Get(data, "created_at") ELSE JStr(""),
             updated_at |-> IF isString(Get(data, "updated_at"))
                              THEN Get(data, "updated_at") ELSE JStr("")])

GroupValidationContext ==
  [service |-> "GroupService", operation |-> "createGroupSafe", stage |-> "validation"]

\* GroupService.annotate
annotate(result, operation) ==
  annotateResultError(result, [service |-> "GroupService", operation |-> operation])

\* GroupService.createGroupSafe: the payload
GroupPayload(input) ==
  JObj([group_name |-> input.name, description |-> input.description])

\* GroupService.createGroupSafe: after the transport's Result
createGroupSafeAfter(transportResult) ==
  LET result == annotate(transportResult, "createGroupSafe")
  IN IF isErr(result) THEN Return(result)
     ELSE IF ~validateGroup(result.value)
       THEN Return(err(MNotifyError("Invalid group response format", 0, result.value,
                                    GroupValidationContext, NoCause)))
     ELSE IF ~Truthy(normalizeGroup(result.value))
       THEN Return(err(MNotifyError("Invalid group response format", 0, result.value,
                                    GroupValidationContext, NoCause)))
     ELSE Return(ok(normalizeGroup(result.value)))

\* AccountService.getSenderIdsSafe
getSenderIdsSafe ==
  err(MNotifyError("mNotify v2 does not provide a sender list endpoint. Use checkSenderIdStatusSafe(senderName).", 400, Undefined,
                   [service |-> "AccountService", operation |-> "getSenderIdsSafe",
                    stage |-> "validation", path |-> "/senderid/status"],
                   NoCause))

\* a throwing variant: await the Safe variant, then unwrap
Unwrapped(completion) ==
  IF completion.kind = "throw" THEN completion ELSE unwrap(completion.value)

SafeOps ==
  {"requestSafe", "sendQuickBulkSMSSafe", "createContactSafe", "createGroupSafe",
   "getSenderIdsSafe"}
ThrowingOps ==
  {"request", "sendQuickBulkSMS", "createContact", "createGroup", "getSenderIds"}

\* the Safe operation a throwing variant awaits
SafeOf(o) ==
  CASE o = "request" -> "requestSafe"
    [] o = "sendQuickBulkSMS" -> "sendQuickBulkSMSSafe"
    [] o = "createContact" -> "createContactSafe"
    [] o = "createGroup" -> "createGroupSafe"
    [] o = "getSenderIds" -> "getSenderIdsSafe"
    [] OTHER -> o

\* what the Safe operation o settles with, given how its requestSafe call settled
SafeAfter(o, transport) ==
  IF transport.kind = "throw" THEN transport
  ELSE CASE o = "sendQuickBulkSMSSafe" -> sendQuickBulkSMSSafeAfter(transport.value)
         [] o = "createContactSafe" -> createContactSafeAfter(transport.value)
         [] o = "createGroupSafe" -> createGroupSafeAfter(transport.value)
         [] OTHER -> transport

\* what operation o settles with, given how its requestSafe call settled
OpAfter(o, transport) ==
  IF o \in ThrowingOps THEN Unwrapped(SafeAfter(SafeOf(o), transport))
  ELSE SafeAfter(o, transport)

(***************************************************************************)
(* The inputs of the model: configurations, calls and server behaviour     *)
(***************************************************************************)
ApiKey == "test-key"

BaseUrls ==
  {Undefined,
   UrlString("https", "host", <<"api">>),
   UrlString("https", "host", <<"api", "">>),
   UrlString("", "", <<"host", "api">>)}

Configs ==
  [apiKey : {ApiKey},
   baseUrl : BaseUrls,
   timeout : {Undefined, JNum(5)},
   maxRetries : {Undefined} \cup {JNum(n) : n \in 0..MaxCfgRetries}]

QuickSMSPath == Path(TRUE, <<"sms", "quick">>)

SMSOptions ==
  {[recipient |-> JStr("233200000000"), sender |-> JStr("Test"), message |-> JStr("Hello"),
    is_schedule |-> Undefined, schedule_date |-> Undefined],
   [recipient |-> JArr(<<JStr("233200000000"), JStr("233244444444")>>),
    sender |-> JStr("Test"), message |-> JStr("Hello"),
    is_schedule |-> JBool(TRUE), schedule_date |-> JStr("2025-01-01 10:00")]}

NewContact == JObj([phone |-> JStr("233200000000"), firstname |-> JStr("Ama"),
                    lastname |-> JStr("Mensah")])

GroupIds == {Undefined, JStr(""), JStr("g1")}

NewGroup == [name |-> JStr("VIP Customers"), description |-> Undefined]

\* descriptors a caller hands to requestSafe / request directly
Descriptors ==
  {[method |-> "POST", url |-> QuickSMSPath, data |-> NewContact, params |-> Undefined],
   [method |-> "GET", url |-> Path(FALSE, <<"balance", "sms">>), data |-> Undefined,
    params |-> [page |-> "2"]],
   [method |-> "GET", url |-> Path(TRUE, <<"contact">>), data |-> Undefined,
    params |-> [key |-> "other-key"]],
   [method |-> "POST", url |-> QuickSMSPath, data |-> Circular, params |-> Undefined]}

SMSSummary ==
  JObj([_id |-> JStr("123"), message_id |-> JStr("msg_123"), type |-> JStr("sms"),
        total_sent |-> JNum(1), contacts |-> JNum(1), total_rejected |-> JNum(0),
        numbers_sent |-> JArr(<<JStr("233200000000")>>), credit_used |-> JNum(1),
        credit_left |-> JNum(99)])

SMSSent ==
  JObj([status |-> JStr("success"), code |-> JStr("200"), message |-> JStr("Message sent"),
        summary |-> SMSSummary])
SMSNoSummary ==
  JObj([status |-> JStr("success"), code |-> JStr("200"), message |-> JStr("ok")])
SMSSummaryText ==
  JObj([status |-> JStr("success"), code |-> JStr("200"), message |-> JStr("ok"),
        summary |-> JStr("none")])
InvalidSender ==
  JObj([status |-> JStr("error"), code |-> JStr("400"), message |-> JStr("Invalid sender ID")])
ContactCreated == JObj([_id |-> JStr("c1"), phone |-> JStr("233200000000")])
ContactAltId == JObj([id |-> JStr("c2"), phone |-> JStr("233200000000"),
                      firstname |-> JStr("Ama")])
ContactNoPhone == JObj([_id |-> JStr("c3")])
GroupCreated == JObj([_id |-> JStr("g1"), group_name |-> JStr("VIP Customers")])
GroupNoName == JObj([id |-> JStr("g2"), contact_count |-> JNum(0)])

\* what response.json() may come to at the endpoint of operation o: a JSON
\* value, or NotJson when it rejects (an empty body, a body that is no JSON)
Bodies(o) ==
  {NotJson, JNull, EmptyObj, InvalidSender} \cup
  CASE SafeOf(o) = "sendQuickBulkSMSSafe" -> {SMSSent, SMSNoSummary, SMSSummaryText}
    [] SafeOf(o) = "createContactSafe" -> {ContactCreated, ContactAltId, ContactNoPhone}
    [] SafeOf(o) = "createGroupSafe" -> {GroupCreated, GroupNoName}
    [] OTHER -> {JObj([message |-> JStr("")]), SMSSent, JArr(<<>>)}

Statuses == {200, 400, 404, 429}

StatusText(status) ==
  CASE status = 200 -> "OK"
    [] status = 400 -> "Bad Request"
    [] status = 404 -> "Not Found"
    [] status = 429 -> "Too Many Requests"
    [] OTHER -> ""

\* values of the retry-after header (Undefined: the header is absent)
RetryAfterHeaders == {Undefined, JStr("2"), JStr("abc")}

\* what fetch may reject with when the network fails
FetchErrors ==
  {TypeError("fetch failed"), ThrownString,
   MNotifyError("Service unavailable", 503, Undefined, [stage |-> "network"], NoCause)}

(***************************************************************************)
(* State                                                                   *)
(***************************************************************************)
VARIABLES
  config,       \* the MNotifyConfig the client was constructed from
  client,       \* the HttpClient: apiKey, baseUrl, timeout, maxRetries
  op,           \* the operation called ("none" before the call)
  args,         \* its arguments
  descriptor,   \* the RequestConfig it hands to requestSafe
  pc,           \* "idle", "fetching", "sleeping", "reading", "done"
  retryCount,   \* retryCount of the requestSafe activation in progress
  fetchLog,     \* the calls of fetch made so far: method, url, body
  timer,        \* the timeout timer of the attempt in flight
  aborted,      \* controller.signal.aborted of the attempt in flight
  elapsed,      \* how long the attempt had been in flight when it was aborted
  sleepTimer,   \* the timer of the sleep before a retry
  sleeps,       \* the sleeps completed so far, in ms
  response,     \* status, status text and (once read) body of the latest response
  replies,      \* how each attempt ended: a response, a timeout or a network failure
  transport,    \* how the requestSafe call settled
  outcome,      \* how the operation's promise settled
  caught,       \* the exception the catch block of requestSafe caught, if any
  retryAfterLog,\* the retry-after header of each response that was retried
  calls,        \* the requestSafe calls made concurrently on the client, by call id
  pure          \* the evaluation of a pure function: its name, inputs and outputs

vars == <<config, client, op, args, descriptor, pc, retryCount, fetchLog, timer, aborted,
          elapsed, sleepTimer, sleeps, response, replies, transport, outcome, caught,
          retryAfterLog, calls, pure>>

Pending == [kind |-> "pending"]
NoTimer == [pending |-> FALSE, delay |-> 0]
NoResponse == [status |-> 0, statusText |-> "", body |-> Undefined]
Reply(kind, status, rc) == [kind |-> kind, status |-> status, retryCount |-> rc]

\* the ids of the concurrent calls, and the locals of one call before it starts
CallIds == {"a", "b"}
IdleCall ==
  [pc |-> "idle", retryCount |-> 0, timer |-> NoTimer, sleepTimer |-> NoTimer,
   aborted |-> FALSE, status |-> 0, result |-> Pending]

\* no pure function is being evaluated
NoEvaluation == [fn |-> "idle"]

Init ==
  /\ config \in Configs
  /\ client = HttpClient(config)
  /\ op = "none"
  /\ args = Undefined
  /\ descriptor = Undefined
  /\ pc = "idle"
  /\ retryCount = 0
  /\ fetchLog = <<>>
  /\ timer = NoTimer
  /\ aborted = FALSE
  /\ elapsed = 0
  /\ sleepTimer = NoTimer
  /\ sleeps = <<>>
  /\ response = NoResponse
  /\ replies = <<>>
  /\ transport = Pending
  /\ outcome = Pending
  /\ caught = Undefined
  /\ retryAfterLog = <<>>
  /\ calls = [c \in CallIds |-> IdleCall]
  /\ pure = NoEvaluation

(***************************************************************************)
(* requestSafe, step by step                                               *)
(***************************************************************************)
\* clearTimeout(timeoutId)
clearTimeoutLeavingPending(t) == t
clearTimeout(t) == NoTimer

\* setTimeout(() => controller.abort(), this.timeout)
ArmTimeoutFirstAttemptOnly(self, rc) ==
  IF rc = 0 THEN [pending |-> TRUE, delay |-> TimerDelay([nan |-> FALSE, val |-> self.timeout])]
  ELSE NoTimer
ArmTimeout(self, rc) ==
  [pending |-> TRUE, delay |-> TimerDelay([nan |-> FALSE, val |-> self.timeout])]

\* the requestSafe call settles with t, and the operation o goes on from there
Settle(o, t) ==
  /\ pc' = "done"
  /\ transport' = t
  /\ outcome' = OpAfter(o, t)

\* one activation of requestSafe(d, rc), up to its first await
StartAttempt(o, d, rc) ==
  LET u == buildUrl(client, d.url, d.params)
      b == SerializeBody(d.data)
  IN /\ retryCount' = rc
     /\ elapsed' = 0
     /\ aborted' = FALSE
     /\ IF u.kind = "throw"
          THEN /\ Settle(o, u)
               /\ UNCHANGED <<timer, fetchLog, caught>>
        ELSE IF b.kind = "throw"
          THEN /\ Settle(o, Return(catchResult(b.value)))
               /\ caught' = b.value
               /\ timer' = clearTimeout(ArmTimeout(client, rc))
               /\ UNCHANGED fetchLog
        ELSE /\ pc' = "fetching"
             /\ caught' = Undefined
             /\ timer' = ArmTimeout(client, rc)
             /\ fetchLog' = Append(fetchLog,
                  [method |-> d.method, url |-> u.value, body |-> b.value])
             /\ UNCHANGED <<transport, outcome>>

\* an operation that answers without calling the transport
Immediate(o, result) ==
  /\ pc' = "done"
  /\ outcome' = IF o \in ThrowingOps THEN unwrap(result) ELSE Return(result)
  /\ UNCHANGED <<descriptor, retryCount, fetchLog, timer, aborted, elapsed, transport,
                 caught>>

CallRequest(o, d, rc) ==
  /\ pc = "idle"
  /\ o \in {"requestSafe", "request"}
  /\ op' = o
  /\ args' = [config |-> d, retryCount |-> rc]
  /\ descriptor' = d
  /\ StartAttempt(o, d, rc)
  /\ UNCHANGED <<pure, calls, config, client, sleepTimer, sleeps, response, replies,
                 retryAfterLog>>

CallSendQuickBulkSMS(o, options) ==
  /\ pc = "idle"
  /\ o \in {"sendQuickBulkSMSSafe", "sendQuickBulkSMS"}
  /\ op' = o
  /\ args' = [options |-> options]
  /\ descriptor' = [method |-> "POST", url |-> QuickSMSPath,
                    data |-> SMSPayload(options), params |-> Undefined]
  /\ StartAttempt(o, descriptor', 0)
  /\ UNCHANGED <<pure, calls, config, client, sleepTimer, sleeps, response, replies,
                 retryAfterLog>>

CallCreateContact(o, contact, groupId) ==
  /\ pc = "idle"
  /\ o \in {"createContactSafe", "createContact"}
  /\ op' = o
  /\ args' = [contact |-> contact, groupId |-> groupId]
  /\ IF ~Truthy(groupId)
       THEN Immediate(o, createContactMissingGroup)
       ELSE /\ descriptor' = [method |-> "POST",
                              url |-> Path(TRUE, <<"contact", groupId.val>>),
                              data |-> contact, params |-> Undefined]
            /\ StartAttempt(o, descriptor', 0)
  /\ UNCHANGED <<pure, calls, config, client, sleepTimer, sleeps, response, replies,
                 retryAfterLog>>

CallCreateGroup(o, input) ==
  /\ pc = "idle"
  /\ o \in {"createGroupSafe", "createGroup"}
  /\ op' = o
  /\ args' = [input |-> input]
  /\ descriptor' = [method |-> "POST", url |-> Path(TRUE, <<"group">>),
                    data |-> GroupPayload(input), params |-> Undefined]
  /\ StartAttempt(o, descriptor', 0)
  /\ UNCHANGED <<pure, calls, config, client, sleepTimer, sleeps, response, replies,
                 retryAfterLog>>

CallGetSenderIds(o) ==
  /\ pc = "idle"
  /\ o \in {"getSenderIdsSafe", "getSenderIds"}
  /\ op' = o
  /\ args' = Undefined
  /\ Immediate(o, getSenderIdsSafe)
  /\ UNCHANGED <<pure, calls, config, client, sleepTimer, sleeps, response, replies,
                 retryAfterLog>>

\* fetch resolves with a response before the timeout: clearTimeout, then either
\* the sleep before a retry or the reading of the body
Respond(status, header) ==
  /\ pc = "fetching"
  /\ timer.pending
  /\ timer' = clearTimeout(timer)
  /\ response' = [status |-> status, statusText |-> StatusText(status), body |-> Undefined]
  /\ replies' = Append(replies, Reply("response", status, retryCount))
  /\ IF ShouldRetry(client, status, retryCount)
       THEN /\ pc' = "sleeping"
            /\ sleepTimer' = [pending |-> TRUE, delay |-> TimerDelay(retryAfter(header))]
            /\ retryAfterLog' = Append(retryAfterLog, header)
       ELSE /\ pc' = "reading"
            /\ UNCHANGED <<sleepTimer, retryAfterLog>>
  /\ UNCHANGED <<pure, calls, config, client, op, args, descriptor, retryCount, fetchLog,
                 aborted,
                 elapsed, sleeps, transport, outcome, caught>>

\* the sleep ends: requestSafe(config, retryCount + 1)
Wake ==
  /\ pc = "sleeping"
  /\ sleepTimer.pending
  /\ sleepTimer' = NoTimer
  /\ sleeps' = Append(sleeps, sleepTimer.delay)
  /\ StartAttempt(op, descriptor, retryCount + 1)
  /\ UNCHANGED <<pure, calls, config, client, op, args, descriptor, response, replies,
                 retryAfterLog>>

\* response.json() settles
BodyArrives(body) ==
  /\ pc = "reading"
  /\ Settle(op, Return(IF ResponseOk(response.status) THEN successResult(body)
                       ELSE errorResult(response, body)))
  /\ response' = [response EXCEPT !.body = body]
  /\ caught' = ThrownReading(response.status, body)
  /\ UNCHANGED <<pure, calls, config, client, op, args, descriptor, retryCount, fetchLog, timer,
                 aborted, elapsed, sleepTimer, sleeps, replies, retryAfterLog>>

\* fetch rejects on its own (no connection, DNS failure)
FetchRejects(error) ==
  /\ pc = "fetching"
  /\ timer.pending
  /\ timer' = clearTimeout(timer)
  /\ replies' = Append(replies, Reply("network", 0, retryCount))
  /\ Settle(op, Return(catchResult(error)))
  /\ caught' = error
  /\ UNCHANGED <<pure, calls, config, client, op, args, descriptor, retryCount, fetchLog,
                 aborted,
                 elapsed, sleepTimer, sleeps, response, retryAfterLog>>

\* the timeout timer fires: controller.abort(), fetch rejects with an AbortError
TimerFires ==
  /\ pc = "fetching"
  /\ timer.pending
  /\ timer' = clearTimeout(timer)
  /\ aborted' = TRUE
  /\ elapsed' = timer.delay
  /\ replies' = Append(replies, Reply("timeout", 0, retryCount))
  /\ Settle(op, Return(catchResult(AbortError)))
  /\ caught' = AbortError
  /\ UNCHANGED <<pure, calls, config, client, op, args, descriptor, retryCount, fetchLog,
                 sleepTimer,
                 sleeps, response, retryAfterLog>>

Next ==
  \/ \E o \in {"requestSafe", "request"}, d \in Descriptors, rc \in 0..MaxInitRetry :
       CallRequest(o, d, rc)
  \/ \E o \in {"sendQuickBulkSMSSafe", "sendQuickBulkSMS"}, options \in SMSOptions :
       CallSendQuickBulkSMS(o, options)
  \/ \E o \in {"createContactSafe", "createContact"}, g \in GroupIds :
       CallCreateContact(o, NewContact, g)
  \/ \E o \in {"createGroupSafe", "createGroup"} : CallCreateGroup(o, NewGroup)
  \/ \E o \in {"getSenderIdsSafe", "getSenderIds"} : CallGetSenderIds(o)
  \/ \E status \in Statuses, header \in RetryAfterHeaders : Respond(status, header)
  \/ Wake
  \/ \E body \in Bodies(op) : BodyArrives(body)
  \/ \E error \in FetchErrors : FetchRejects(error)
  \/ TimerFires

Spec == Init /\ [][Next]_vars

(***************************************************************************)
(* Properties                                                              *)
(***************************************************************************)
Done == pc = "done"
LastReply == replies[Len(replies)]
\* every attempt so far was answered, and answered with HTTP 429
AllRateLimited ==
  /\ replies # <<>>
  /\ \A i \in DOMAIN replies : replies[i].kind = "response" /\ replies[i].status = 429
\* the requestSafe call resolved to an Err / to an Ok
TransportErr == transport.kind = "return" /\ ~transport.value.success
TransportOk == transport.kind = "return" /\ transport.value.success
\* a key of an error's context ("" when the error has no context or not that key)
CtxField(e, k) ==
  IF e.context = Undefined THEN "" ELSE IF k \in DOMAIN e.context THEN e.context[k] ELSE ""

\* C1: if every attempt of a call is answered with HTTP 429, the call makes at
\* most maxRetries + 1 fetch attempts and then resolves to an Err whose
\* statusCode is 429 (never to an Ok, never with a further attempt).  Stated
\* for the calls that start with retryCount 0.
C1_RateLimitedCallEndsWith429 ==
  (AllRateLimited /\ replies[1].retryCount = 0) =>
    /\ Len(fetchLog) <= client.maxRetries + 1
    /\ Done => /\ TransportErr
               /\ transport.value.error.statusCode = 429

\* The bound on the attempts alone: at most maxRetries + 1 calls of fetch.
AttemptsBounded == Len(fetchLog) <= client.maxRetries + 1

\* C2: an attempt is followed by another attempt only if it was answered with
\* HTTP 429 while retryCount < maxRetries; an attempt that ended with any other
\* response, with a timeout or with a network failure is the last one.
C2_RetryOnlyAfter429 ==
  /\ Len(replies) <= Len(fetchLog)
  /\ Len(fetchLog) <= Len(replies) + 1
  /\ \A i \in DOMAIN replies :
       i < Len(fetchLog) =>
         /\ replies[i].kind = "response"
         /\ replies[i].status = 429
         /\ replies[i].retryCount < client.maxRetries

\* C2 witness: a call that was retried twice and whose third attempt timed out.
C2_Witness ==
  /\ Done
  /\ Len(fetchLog) = 3
  /\ Len(replies) = 3
  /\ replies[3].kind = "timeout"

\* C3: every attempt, the first and each retried one, is in flight under a
\* pending timer of the full configured timeout; when an attempt gets no
\* response in that time it is aborted and the call resolves to
\* Err("Request timeout", 408).
C3_TimeoutAbortsWith408 ==
  /\ pc = "fetching" =>
       /\ timer.pending
       /\ timer.delay = client.timeout
       /\ ~aborted
  /\ (replies # <<>> /\ LastReply.kind = "timeout") =>
       /\ Done
       /\ aborted
       /\ elapsed = client.timeout
       /\ ~timer.pending
       /\ transport =
            Return(err(MNotifyError("Request timeout", 408, Undefined, NoContext, NoCause)))

\* C3 witness: a retried attempt that timed out.
C3_Witness ==
  /\ Done
  /\ Len(fetchLog) >= 2
  /\ LastReply.kind = "timeout"
  /\ TransportErr
  /\ transport.value.error.statusCode = 408

\* C4: requestSafe and every <verb>Safe operation resolve to a Result; their
\* promises never reject.
C4_SafeNeverRejects == op \in SafeOps => outcome.kind # "throw"

\* C5: a non-2xx response that is not retried gives Err with the HTTP status as
\* statusCode, the body's message (the status text when the body has none) as
\* message and the parsed body (an empty object when it is no JSON) as data;
\* with 400 and {message: "Invalid sender ID"} the throwing convention raises
\* an error with exactly that message.
C5_HttpFailureCarriesStatusAndBody ==
  (Done /\ replies # <<>> /\ LastReply.kind = "response" /\ ~ResponseOk(LastReply.status)) =>
    /\ TransportErr
    /\ transport.value.error.statusCode = response.status
    /\ transport.value.error.data =
         (IF response.body = NotJson THEN EmptyObj ELSE response.body)
    /\ Get(response.body, "message") = Undefined =>
         transport.value.error.message = response.statusText
    /\ (isString(Get(response.body, "message")) /\ Get(response.body, "message").val # "") =>
         transport.value.error.message = Get(response.body, "message").val
    /\ (op = "sendQuickBulkSMS" /\ response.status = 400 /\ response.body = InvalidSender) =>
         /\ outcome.kind = "throw"
         /\ outcome.value.message = "Invalid sender ID"

\* C6: k attempts answered with 429 and then a 2xx response with JSON body b
\* give Ok(b) unchanged, after k + 1 attempts and exactly k sleeps.
C6_RetriesAreTransparent ==
  (/\ Done
   /\ replies # <<>>
   /\ LastReply.kind = "response"
   /\ ResponseOk(LastReply.status)
   /\ response.body # NotJson
   /\ \A i \in 1..(Len(replies) - 1) :
        replies[i].kind = "response" /\ replies[i].status = 429) =>
    /\ transport = Return(ok(response.body))
    /\ Len(fetchLog) = Len(replies)
    /\ Len(sleeps) = Len(replies) - 1
    /\ Len(replies) - 1 <= client.maxRetries
    /\ op = "requestSafe" => outcome = Return(ok(response.body))

\* C6 witness: three 429 answers, then success on the fourth attempt.
C6_Witness ==
  /\ Done
  /\ op = "requestSafe"
  /\ Len(replies) = 4
  /\ LastReply.status = 200
  /\ outcome = Return(ok(SMSSent))

\* C7: request(descriptor, retryCount) is requestSafe(descriptor, retryCount)
\* unwrapped: it returns the value of the Ok and throws the error of the Err.
C7_RequestIsRequestSafeUnwrapped ==
  (op = "request" /\ Done) =>
    /\ descriptor = args.config
    /\ CASE transport.kind = "throw" -> outcome = transport
         [] transport.value.success -> outcome = Return(transport.value.value)
         [] OTHER -> outcome = Throw(transport.value.error)

\* C7 witness: request throws the 404 error its retried requestSafe resolved to.
C7_Witness ==
  /\ Done
  /\ op = "request"
  /\ Len(fetchLog) >= 2
  /\ TransportErr
  /\ transport.value.error.statusCode = 404
  /\ outcome.kind = "throw"

\* the path segments of the base URL (without the empty one a trailing slash gives)
BaseSegments == SelectSeq(client.baseUrl.segs, LAMBDA x : x # "")

\* C8: the URL passed to fetch keeps every path segment of the base URL, then
\* has the descriptor's path, and carries the API key as query parameter key
\* (stated for descriptor paths with a leading slash, as the operations pass
\* them, and for descriptors without query parameters of their own).
C8_BasePathPreserved ==
  \A i \in DOMAIN fetchLog :
    (descriptor.url.absolute /\ descriptor.params = Undefined) =>
      /\ fetchLog[i].url.pathname = BaseSegments \o descriptor.url.segs
      /\ fetchLog[i].url.search = ("key" :> client.apiKey)

\* an operation rejected on the client: Err with 400, stage validation, the path
ClientSideRejection(path) ==
  /\ Done
  /\ fetchLog = <<>>
  /\ transport = Pending
  /\ outcome.kind = "return"
  /\ ~outcome.value.success
  /\ outcome.value.error.statusCode = 400
  /\ CtxField(outcome.value.error, "stage") = "validation"
  /\ CtxField(outcome.value.error, "path") = path

\* every call of fetch made so far is a POST to /contact/<groupId>
OnlyContactPosts ==
  \A i \in DOMAIN fetchLog :
    /\ fetchLog[i].method = "POST"
    /\ descriptor.url = Path(TRUE, <<"contact", args.groupId.val>>)
    /\ SubSeq(fetchLog[i].url.pathname, Len(fetchLog[i].url.pathname) - 1,
              Len(fetchLog[i].url.pathname)) = <<"contact", args.groupId.val>>

\* C9 as stated: without groupId, and for getSenderIdsSafe, Err 400 without any
\* network call; with a groupId exactly one POST to /contact/<groupId> (stated
\* for the calls that resolve to a Result).
C9_ExactlyOnePost ==
  /\ (op = "createContactSafe" /\ ~Truthy(args.groupId)) =>
       ClientSideRejection("/contact/{group_id}")
  /\ op = "getSenderIdsSafe" => ClientSideRejection("/senderid/status")
  /\ (op = "createContactSafe" /\ Truthy(args.groupId)) =>
       /\ OnlyContactPosts
       /\ Len(fetchLog) <= 1
       /\ (Done /\ outcome.kind = "return") => Len(fetchLog) = 1

\* C9 amended: as above, but with a groupId every network call is a POST to
\* /contact/<groupId>, there is at most one when no response was HTTP 429 and
\* at most maxRetries + 1 in any case.
C9_ClientSideRejectionOrContactPosts ==
  /\ (op = "createContactSafe" /\ ~Truthy(args.groupId)) =>
       ClientSideRejection("/contact/{group_id}")
  /\ op = "getSenderIdsSafe" => ClientSideRejection("/senderid/status")
  /\ (op = "createContactSafe" /\ Truthy(args.groupId)) =>
       /\ OnlyContactPosts
       /\ Len(fetchLog) <= client.maxRetries + 1
       /\ (\A i \in DOMAIN replies : replies[i].status # 429) => Len(fetchLog) <= 1
       /\ (Done /\ outcome.kind = "return") => Len(fetchLog) >= 1

\* C9 witness: createContactSafe without groupId, rejected with no network call.
C9_Witness ==
  /\ op = "createContactSafe"
  /\ ~Truthy(args.groupId)
  /\ ClientSideRejection("/contact/{group_id}")

\* the response value has the shape the operation expects
ExpectedShape(o, value) ==
  IF o = "sendQuickBulkSMSSafe" THEN validateSMSResponse(value) = Return(TRUE)
  ELSE validateContact(value)

InvalidFormatMessage(o) ==
  IF o = "sendQuickBulkSMSSafe" THEN "Invalid SMS response format"
  ELSE "Invalid contact response format"

\* C10: a successful response of the wrong shape gives Err
\* "Invalid <entity> response format" with statusCode 0, stage validation,
\* service and operation set and the raw value as data, and raises nothing.
C10_ShapeMismatchIsValidationErr ==
  (/\ op \in {"sendQuickBulkSMSSafe", "createContactSafe"}
   /\ Done
   /\ TransportOk
   /\ ~ExpectedShape(op, transport.value.value)) =>
    /\ outcome.kind = "return"
    /\ ~outcome.value.success
    /\ outcome.value.error.message = InvalidFormatMessage(op)
    /\ outcome.value.error.statusCode = 0
    /\ CtxField(outcome.value.error, "stage") = "validation"
    /\ CtxField(outcome.value.error, "service") # ""
    /\ CtxField(outcome.value.error, "operation") = op
    /\ outcome.value.error.data = transport.value.value

\* the Safe operations that hand a request to the transport
ResourceSafeOps == {"sendQuickBulkSMSSafe", "createContactSafe", "createGroupSafe"}

ServiceOf(o) ==
  CASE o = "sendQuickBulkSMSSafe" -> "SMSService"
    [] o = "createContactSafe" -> "ContactService"
    [] o = "createGroupSafe" -> "GroupService"
    [] OTHER -> ""

\* the keys of an error's context, and whether it has a given key
ContextKeys(e) == IF e.context = Undefined THEN {} ELSE DOMAIN e.context
HasCtx(e, k) == k \in ContextKeys(e)

\* the Err of operation o keeps the transport error and adds service and operation
KeepsTransportError(o) ==
  /\ outcome.kind = "return"
  /\ ~outcome.value.success
  /\ outcome.value.error.message = transport.value.error.message
  /\ outcome.value.error.statusCode = transport.value.error.statusCode
  /\ outcome.value.error.data = transport.value.error.data
  /\ outcome.value.error.cause = transport.value.error.cause
  /\ \A k \in ContextKeys(transport.value.error) :
       /\ HasCtx(outcome.value.error, k)
       /\ outcome.value.error.context[k] = transport.value.error.context[k]
  /\ CtxField(outcome.value.error, "service") = ServiceOf(o)
  /\ CtxField(outcome.value.error, "operation") = o

\* C11: when the transport returns Err, the resource operation returns an Err
\* with the transport error's message, statusCode, data and cause, whose
\* context has every key the transport attached plus service and operation;
\* when the transport returns Ok, annotateResultError leaves the Result as it is.
C11_TransportErrorAnnotated ==
  (op \in ResourceSafeOps /\ Done /\ transport.kind = "return") =>
    IF transport.value.success
      THEN annotateResultError(transport.value,
             [service |-> ServiceOf(op), operation |-> op]) = transport.value
    ELSE KeepsTransportError(op)

\* The same for the operations that go through annotate (ContactService,
\* GroupService): there it holds.
AnnotatedOpsKeepTransportError ==
  (op \in {"createContactSafe", "createGroupSafe"} /\ Done /\ TransportErr) =>
    KeepsTransportError(op)

\* C12: when the request of a <verb>Safe operation fails with an HTTP error,
\* the context of the returned error names the service, the operation, the
\* HTTP method and the request path, and records the number of retries.
C12_HttpErrorContextNamesRequest ==
  (/\ op \in ResourceSafeOps
   /\ Done
   /\ replies # <<>>
   /\ LastReply.kind = "response"
   /\ ~ResponseOk(LastReply.status)
   /\ TransportErr
   /\ transport.value.error.statusCode = response.status) =>
    /\ outcome.kind = "return"
    /\ ~outcome.value.success
    /\ CtxField(outcome.value.error, "service") = ServiceOf(op)
    /\ CtxField(outcome.value.error, "operation") = op
    /\ CtxField(outcome.value.error, "method") = descriptor.method
    /\ HasCtx(outcome.value.error, "path")
    /\ HasCtx(outcome.value.error, "retryCount")
    /\ outcome.value.error.context.retryCount = retryCount

\* C13: an exception raised by fetch or by the handling of the response gives
\* Err: the MNotifyError itself when the exception is one, statusCode 408 when
\* it is an abort, and otherwise statusCode 0 with the exception's message
\* ("Network error" when the thrown value is no Error).
C13_ExceptionsBecomeErr ==
  caught # Undefined =>
    /\ Done
    /\ TransportErr
    /\ CASE caught.name = "MNotifyError" -> transport.value.error = caught
         [] caught.name = "AbortError" -> transport.value.error.statusCode = 408
         [] OTHER ->
              /\ transport.value.error.statusCode = 0
              /\ transport.value.error.message =
                   (IF caught.isError THEN caught.message ELSE "Network error")

\* C13 witness: fetch rejected with an MNotifyError, and requestSafe resolved
\* to the Err of that very error.
C13_Witness ==
  /\ Done
  /\ op = "requestSafe"
  /\ caught # Undefined
  /\ caught.name = "MNotifyError"
  /\ outcome = Return(err(caught))

\* the retry bound the caller asked for: config.maxRetries, 3 when absent
SuppliedMaxRetries ==
  IF config.maxRetries = Undefined THEN DefaultMaxRetries ELSE config.maxRetries.val

\* the i-th attempt was followed by a retry (its sleep, then another attempt)
Retried(i) == i < Len(fetchLog) \/ (i = Len(replies) /\ pc = "sleeping")

\* C14: the retry bound enforced is the supplied maxRetries, for every
\* supplied non-negative integer (with 0 a 429 is never retried), and 3 only
\* when none is supplied.
C14_SuppliedRetryBoundEnforced ==
  /\ Len(fetchLog) <= SuppliedMaxRetries + 1
  /\ \A i \in DOMAIN replies :
       (replies[i].kind = "response" /\ replies[i].status = 429) =>
         (Retried(i) <=> replies[i].retryCount < SuppliedMaxRetries)

\* C15: every request URL has the configured API key as the value of the
\* query parameter key; the descriptor's other parameters are merged in, and
\* a descriptor parameter named key does not replace the API key.
C15_ApiKeyNeverReplaced ==
  \A i \in DOMAIN fetchLog :
    /\ fetchLog[i].url.search["key"] = client.apiKey
    /\ descriptor.params # Undefined =>
         \A k \in DOMAIN descriptor.params \ {"key"} :
           /\ k \in DOMAIN fetchLog[i].url.search
           /\ fetchLog[i].url.search[k] = descriptor.params[k]

\* the sleep the retry-after header asks for, in ms: its number of seconds,
\* one second when the header is absent or is no number
ExpectedSleepMs(header) ==
  IF header = Undefined THEN 1000
  ELSE IF parseInt(header.val).nan THEN 1000
  ELSE parseInt(header.val).val * 1000

\* C16: before each retry requestSafe sleeps for the seconds of the response's
\* retry-after header, for exactly 1 second when the header is absent or cannot
\* be parsed, and the next attempt starts only after the sleep has ended.
C16_SleepsRetryAfterSeconds ==
  /\ pc = "sleeping" =>
       /\ sleepTimer.pending
       /\ sleepTimer.delay = ExpectedSleepMs(retryAfterLog[Len(retryAfterLog)])
       /\ Len(fetchLog) = Len(replies)
  /\ Len(fetchLog) <= Len(sleeps) + 1
  /\ Len(sleeps) <= Len(retryAfterLog)
  /\ \A i \in DOMAIN sleeps : sleeps[i] = ExpectedSleepMs(retryAfterLog[i])

(***************************************************************************)
(* Termination.  The timers belong to the runtime: a pending timeout timer *)
(* fires unless it is cleared first, and a sleep ends.  Nothing is assumed *)
(* of the server: it may answer, fail, or stop sending at any point.       *)
(***************************************************************************)
LiveSpec == Spec /\ WF_vars(TimerFires) /\ WF_vars(Wake)

\* C17: every call eventually resolves, given only that timers fire and sleeps
\* end: the attempts are bounded by maxRetries + 1 and each attempt is cut off
\* by the timeout, whether the server stops before the response headers or
\* while the body is being read.
C17_EveryCallResolves == (pc # "idle") ~> Done

\* A call that is suspended always has a pending timer that will resume it.
SuspendedCallHasPendingTimer ==
  /\ pc \in {"fetching", "reading"} => timer.pending
  /\ pc = "sleeping" => sleepTimer.pending

(***************************************************************************)
(* Concurrent calls.  Two requestSafe calls run on one client; each has    *)
(* the locals of its own activation (retryCount, controller, timeoutId)    *)
(* in calls[c].  The client is constructed with the default base URL, so   *)
(* buildUrl does not throw, and both calls POST to /sms/quick.             *)
(***************************************************************************)
singleCallVars ==
  <<op, args, descriptor, pc, retryCount, fetchLog, timer, aborted, elapsed, sleepTimer,
    sleeps, response, replies, transport, outcome, caught, retryAfterLog>>

ConcInit == Init /\ config.baseUrl = Undefined

ConcStatuses == {200, 404, 429}
ConcBodies == {SMSSent, NotJson}

\* the calls whose fetch is aborted when the timeout timer of call c fires:
\* the controller is a local of the activation
AbortTargetsSharedController(cs, c) == {d \in CallIds : cs[d].pc = "fetching"}
AbortTargets(cs, c) == {c}

\* one activation of requestSafe for call c, up to its first await
ConcAttempt(c, rc) ==
  calls' = [calls EXCEPT ![c] =
              [@ EXCEPT !.pc = "fetching", !.retryCount = rc,
                        !.timer = ArmTimeout(client, rc), !.aborted = FALSE]]

ConcCall(c) ==
  /\ calls[c].pc = "idle"
  /\ ConcAttempt(c, 0)
  /\ UNCHANGED <<pure, config, client, singleCallVars>>

ConcRespond(c, status) ==
  /\ calls[c].pc = "fetching"
  /\ calls[c].timer.pending
  /\ calls' = [calls EXCEPT ![c] =
       IF ShouldRetry(client, status, calls[c].retryCount)
         THEN [@ EXCEPT !.pc = "sleeping", !.timer = NoTimer, !.status = status,
                        !.sleepTimer = [pending |-> TRUE,
                                        delay |-> TimerDelay(retryAfter(Undefined))]]
       ELSE [@ EXCEPT !.pc = "reading", !.timer = NoTimer, !.status = status]]
  /\ UNCHANGED <<pure, config, client, singleCallVars>>

ConcWake(c) ==
  /\ calls[c].pc = "sleeping"
  /\ calls[c].sleepTimer.pending
  /\ calls' = [calls EXCEPT ![c] =
              [@ EXCEPT !.pc = "fetching", !.retryCount = calls[c].retryCount + 1,
                        !.sleepTimer = NoTimer,
                        !.timer = ArmTimeout(client, calls[c].retryCount + 1),
                        !.aborted = FALSE]]
  /\ UNCHANGED <<pure, config, client, singleCallVars>>

ConcBodyArrives(c, body) ==
  /\ calls[c].pc = "reading"
  /\ calls' = [calls EXCEPT ![c] =
       [@ EXCEPT !.pc = "done",
                 !.result =
                   Return(IF ResponseOk(calls[c].status) THEN successResult(body)
                          ELSE errorResult([status |-> calls[c].status,
                                            statusText |-> StatusText(calls[c].status)],
                                           body))]]
  /\ UNCHANGED <<pure, config, client, singleCallVars>>

ConcFetchRejects(c, error) ==
  /\ calls[c].pc = "fetching"
  /\ calls[c].timer.pending
  /\ calls' = [calls EXCEPT ![c] =
              [@ EXCEPT !.pc = "done", !.timer = NoTimer,
                        !.result = Return(catchResult(error))]]
  /\ UNCHANGED <<pure, config, client, singleCallVars>>

ConcTimerFires(c) ==
  /\ calls[c].pc = "fetching"
  /\ calls[c].timer.pending
  /\ calls' = [d \in CallIds |->
       IF d \in AbortTargets(calls, c)
         THEN [calls[d] EXCEPT !.pc = "done", !.timer = NoTimer, !.aborted = TRUE,
                               !.result = Return(catchResult(AbortError))]
       ELSE calls[d]]
  /\ UNCHANGED <<pure, config, client, singleCallVars>>

\* a step of call c
ConcStep(c) ==
  \/ ConcCall(c)
  \/ \E status \in ConcStatuses : ConcRespond(c, status)
  \/ ConcWake(c)
  \/ \E body \in ConcBodies : ConcBodyArrives(c, body)
  \/ ConcFetchRejects(c, TypeError("fetch failed"))
  \/ ConcTimerFires(c)

ConcNext ==
  \/ \E c \in CallIds : ConcCall(c)
  \/ \E c \in CallIds, status \in ConcStatuses : ConcRespond(c, status)
  \/ \E c \in CallIds : ConcWake(c)
  \/ \E c \in CallIds, body \in ConcBodies : ConcBodyArrives(c, body)
  \/ \E c \in CallIds : ConcFetchRejects(c, TypeError("fetch failed"))
  \/ \E c \in CallIds : ConcTimerFires(c)

ConcSpec == ConcInit /\ [][ConcNext]_vars

\* C18: concurrent requestSafe calls on one client do not affect one another:
\* a step of one call (its start, a response, a 429 retry, a timeout, a
\* failure) leaves the retry count, the timer, the abort state and the Result
\* of every other call as they were, and no step changes the client's apiKey,
\* baseUrl, timeout or maxRetries.
C18_CallsAreIndependent ==
  [][\A c \in CallIds :
       ConcStep(c) =>
         /\ \A d \in CallIds \ {c} : calls'[d] = calls[d]
         /\ client' = client]_vars

\* C18 witness: call a has timed out while call b, retried once after a 429,
\* is still in flight under its own pending timer.
C18_Witness ==
  /\ calls["a"].pc = "done"
  /\ calls["a"].aborted
  /\ calls["a"].result =
       Return(err(MNotifyError("Request timeout", 408, Undefined, NoContext, NoCause)))
  /\ calls["b"].pc = "fetching"
  /\ calls["b"].retryCount = 1
  /\ calls["b"].timer.pending
  /\ ~calls["b"].aborted

\* the throwing variants of the resource operations
ThrowingResourceOps == {"sendQuickBulkSMS", "createContact", "createGroup", "getSenderIds"}

\* C19: the throwing variant of a resource operation is its Safe variant
\* unwrapped: it returns the value of the Ok and throws the MNotifyError of
\* the Err, and it throws no error of another type (stated for the calls whose
\* request URL could be built).
C19_ThrowingVariantIsSafeUnwrapped ==
  (op \in ThrowingResourceOps /\ Done /\ transport.kind # "throw") =>
    /\ outcome.kind = "throw" => outcome.value.name = "MNotifyError"
    /\ transport.kind = "return" =>
         /\ SafeAfter(SafeOf(op), transport).kind = "return"
         /\ outcome = unwrap(SafeAfter(SafeOf(op), transport).value)

\* Where the Safe variant resolves to a Result, the throwing variant returns
\* the value of its Ok and throws the error of its Err.
ThrowingVariantUnwrapsResult ==
  (op \in ThrowingResourceOps /\ Done /\ transport.kind = "return"
   /\ SafeAfter(SafeOf(op), transport).kind = "return") =>
    outcome = unwrap(SafeAfter(SafeOf(op), transport).value)

\* C20: sendQuickBulkSMS and sendQuickBulkSMSSafe send a body whose recipient
\* is an array: a single recipient string becomes a one-element array of it,
\* an array is sent unchanged, and is_schedule defaults to false and
\* schedule_date to the empty string.
C20_RecipientSentAsArray ==
  op \in {"sendQuickBulkSMS", "sendQuickBulkSMSSafe"} =>
    \A i \in DOMAIN fetchLog :
      /\ fetchLog[i].method = "POST"
      /\ isArray(Get(fetchLog[i].body.of, "recipient"))
      /\ isString(args.options.recipient) =>
           Get(fetchLog[i].body.of, "recipient") = JArr(<<args.options.recipient>>)
      /\ isArray(args.options.recipient) =>
           Get(fetchLog[i].body.of, "recipient") = args.options.recipient
      /\ Get(fetchLog[i].body.of, "is_schedule") =
           (IF args.options.is_schedule = Undefined THEN JBool(FALSE)
            ELSE args.options.is_schedule)
      /\ Get(fetchLog[i].body.of, "schedule_date") =
           (IF args.options.schedule_date = Undefined THEN JStr("")
            ELSE args.options.schedule_date)
      /\ Get(fetchLog[i].body.of, "sender") = args.options.sender
      /\ Get(fetchLog[i].body.of, "message") = args.options.message

\* C20 witness: a single recipient string, sent as a one-element array.
C20_Witness ==
  /\ op = "sendQuickBulkSMSSafe"
  /\ isString(args.options.recipient)
  /\ Len(fetchLog) = 1
  /\ Get(fetchLog[1].body.of, "recipient") = JArr(<<JStr("233200000000")>>)
  /\ Get(fetchLog[1].body.of, "is_schedule") = JBool(FALSE)

\* C27: at most one timeout timer of a call is pending at any time (a timer is
\* armed only when none is pending), and none is pending while the call sleeps
\* before a retry or after it has resolved: the timer of every attempt is
\* cleared when its fetch settles, by a response, a failure or the abort.
C27_AttemptTimersAreCleared ==
  [][/\ (timer'.pending /\ timer' # timer) => (~timer.pending /\ pc' = "fetching")
     /\ pc' \in {"sleeping", "reading", "done"} => ~timer'.pending
     /\ Len(replies') > Len(replies) => ~timer'.pending]_vars

\* C27 witness: a call that was retried after a sleep and has resolved, with
\* no timer left pending.
C27_Witness ==
  /\ Done
  /\ Len(fetchLog) = 2
  /\ Len(sleeps) = 1
  /\ ~timer.pending
  /\ ~sleepTimer.pending

(***************************************************************************)
(* Pure functions.  One behaviour of PureSpec evaluates one function (or   *)
(* one chain of Result or withContext calls) on inputs drawn from small    *)
(* sets; pure holds the function's name, its inputs and what it returned.  *)
(***************************************************************************)
\* the largest value a Result of the chains carries
MaxValue == 2
\* the longest chain of map / mapErr / andThen, and of withContext calls
MaxChain == 2

Values == 0..MaxValue
Errors == {"e1", "e2"}

\* types/Result.ts: the methods of a Result.  A method that takes a function
\* gives its result and the arguments it called the function with.
map(r, fn) ==
  IF r.success THEN [result |-> ok(fn[r.value]), called |-> <<r.value>>]
  ELSE [result |-> err(r.error), called |-> <<>>]

mapErrKeepingError(r, fn) ==
  IF r.success THEN [result |-> ok(r.value), called |-> <<>>]
  ELSE [result |-> err(r.error), called |-> <<>>]
mapErr(r, fn) ==
  IF r.success THEN [result |-> ok(r.value), called |-> <<>>]
  ELSE [result |-> err(fn[r.error]), called |-> <<r.error>>]

andThen(r, fn) ==
  IF r.success THEN [result |-> fn[r.value], called |-> <<r.value>>]
  ELSE [result |-> err(r.error), called |-> <<>>]

unwrapOrDefaulting(r, defaultValue) == defaultValue
unwrapOr(r, defaultValue) == IF r.success THEN r.value ELSE defaultValue

unwrapOrElse(r, fn) ==
  IF r.success THEN [value |-> r.value, called |-> <<>>]
  ELSE [value |-> fn[r.error], called |-> <<r.error>>]

\* match: called lists the handlers that ran
match(r, matcher) ==
  IF r.success THEN [value |-> matcher.ok[r.value], called |-> <<"ok">>]
  ELSE [value |-> matcher.err[r.error], called |-> <<"err">>]

\* the functions handed to the methods: of map and match, of mapErr, of
\* andThen, and of unwrapOrElse and match
Fns ==
  [value |-> {[v \in Values |-> (v + 1) % (MaxValue + 1)], [v \in Values |-> 0]},
   error |-> {[e \in Errors |-> "e2"], [e \in Errors |-> e]},
   result |-> {[v \in Values |-> ok((v + 1) % (MaxValue + 1))],
               [v \in Values |-> err("e2")],
               [v \in Values |-> IF v = 0 THEN err("e1") ELSE ok(v)]},
   recover |-> {[e \in Errors |-> 0], [e \in Errors |-> IF e = "e1" THEN 1 ELSE MaxValue]}]

\* ok(v) or err(e)
ResultNew(r) ==
  /\ pure = NoEvaluation
  /\ pure' = [fn |-> "Result", r |-> r, steps |-> 0,
              last |-> [op |-> "new", before |-> r, called |-> <<>>]]
  /\ UNCHANGED <<calls, config, client, singleCallVars>>

\* the chain goes on with one more method call
ResultStep(opName, fn, out) ==
  /\ pure.fn = "Result"
  /\ pure.steps < MaxChain
  /\ pure' = [fn |-> "Result", r |-> out.result, steps |-> pure.steps + 1,
              last |-> [op |-> opName, before |-> pure.r, fn |-> fn,
                        called |-> out.called]]
  /\ UNCHANGED <<calls, config, client, singleCallVars>>

ResultMap(fn) == ResultStep("map", fn, map(pure.r, fn))
ResultMapErr(fn) == ResultStep("mapErr", fn, mapErr(pure.r, fn))
ResultAndThen(fn) == ResultStep("andThen", fn, andThen(pure.r, fn))

\* the Result is consumed: unwrap, unwrapOr, unwrapOrElse and match
ResultConsume(defaultValue, recover, onOk) ==
  /\ pure.fn = "Result"
  /\ pure' = [fn |-> "ResultConsumed", r |-> pure.r,
              isOk |-> isOk(pure.r), isErr |-> isErr(pure.r),
              unwrap |-> unwrap(pure.r),
              defaultValue |-> defaultValue,
              unwrapOr |-> unwrapOr(pure.r, defaultValue),
              recover |-> recover,
              unwrapOrElse |-> unwrapOrElse(pure.r, recover),
              matcher |-> [ok |-> onOk, err |-> recover],
              match |-> match(pure.r, [ok |-> onOk, err |-> recover])]
  /\ UNCHANGED <<calls, config, client, singleCallVars>>

\* MNotifyError.withContext on an error taken with its stack (the constructor
\* captures the stack of the place that calls it): wrapped.stack = this.stack
withContextObject(this, context) ==
  [error |-> withContext(this.error, context), stack |-> this.stack]

\* the class fromUnknown finds a thrown value an instance of
InstanceOf(x) ==
  IF "name" \in DOMAIN x /\ x.name = "MNotifyError" THEN "MNotifyError"
  ELSE IF "isError" \in DOMAIN x /\ x.isError THEN "Error"
  ELSE "other"

\* MNotifyError.fromUnknown
fromUnknownAlwaysFallback(error, fallbackMessage, statusCode, context, data) ==
  IF InstanceOf(error) = "MNotifyError"
    THEN IF context # Undefined THEN withContext(error, context) ELSE error
  ELSE MNotifyError(fallbackMessage, statusCode, data, context, error)
fromUnknown(error, fallbackMessage, statusCode, context, data) ==
  IF InstanceOf(error) = "MNotifyError"
    THEN IF context # Undefined THEN withContext(error, context) ELSE error
  ELSE IF InstanceOf(error) = "Error"
    THEN MNotifyError(IF error.message # "" THEN error.message ELSE fallbackMessage,
                      statusCode, data, context, error)
  ELSE MNotifyError(fallbackMessage, statusCode, data, context, error)

\* errorContext.ts: validationError
validationError(message, context, cause) ==
  fromUnknown(cause, message, 0, context, Undefined)

\* the contexts withContext and fromUnknown are called with
ContextPartials ==
  {[service |-> "SMSService"],
   [service |-> "ContactService", operation |-> "createContactSafe"],
   [operation |-> "getGroupsSafe"],
   [stage |-> "request", path |-> "/sms/quick"]}

\* the values fromUnknown is called with
UnknownValues ==
  {MNotifyError("Not Found", 404, EmptyObj, [path |-> "/sms/quick"], NoCause),
   MNotifyError("Request timeout", 408, Undefined, NoContext, NoCause),
   TypeError("fetch failed"), TypeError(""), Undefined, JStr("boom")}

WithContextNew(e) ==
  /\ pure = NoEvaluation
  /\ pure' = [fn |-> "withContext", original |-> e, current |-> e, supplied |-> <<>>]
  /\ UNCHANGED <<calls, config, client, singleCallVars>>

\* current.withContext(context)
WithContextCall(context) ==
  /\ pure.fn = "withContext"
  /\ Len(pure.supplied) < MaxChain
  /\ pure' = [pure EXCEPT !.current = withContextObject(pure.current, context),
                          !.supplied = Append(pure.supplied, context)]
  /\ UNCHANGED <<calls, config, client, singleCallVars>>

FromUnknownCall(error, fallbackMessage, statusCode, context, data) ==
  /\ pure = NoEvaluation
  /\ pure' = [fn |-> "fromUnknown", error |-> error, fallbackMessage |-> fallbackMessage,
              statusCode |-> statusCode, context |-> context, data |-> data,
              output |-> fromUnknown(error, fallbackMessage, statusCode, context, data)]
  /\ UNCHANGED <<calls, config, client, singleCallVars>>

ValidationErrorCall(message, context, cause) ==
  /\ pure = NoEvaluation
  /\ pure' = [fn |-> "fromUnknown", error |-> cause, fallbackMessage |-> message,
              statusCode |-> 0, context |-> context, data |-> Undefined,
              output |-> validationError(message, context, cause)]
  /\ UNCHANGED <<calls, config, client, singleCallVars>>

(***************************************************************************)
(* Entities: validators, normalizers and the operations that return them   *)
(***************************************************************************)
MaxList == 2

\* TemplateService: validateTemplate
validateTemplate(data) ==
  /\ isObject(data)
  /\ Truthy(FirstString(data, "id", "_id"))
  /\ Truthy(FirstString(data, "name", "title"))
  /\ Truthy(FirstString(data, "content", "body"))

\* TemplateService: normalizeTemplate (JNull for null)
normalizeTemplate(data) ==
  IF ~isObject(data) THEN JNull
  ELSE IF ~Truthy(FirstString(data, "id", "_id"))
          \/ ~Truthy(FirstString(data, "name", "title"))
          \/ ~Truthy(FirstString(data, "content", "body")) THEN JNull
  ELSE JObj([id |-> FirstString(data, "id", "_id"),
             name |-> FirstString(data, "name", "title"),
             content |-> FirstString(data, "content", "body"),
             status |-> IF isString(Get(data, "status"))
                          THEN Get(data, "status") ELSE JStr("pending"),
             created_at |-> IF isString(Get(data, "created_at"))
                              THEN Get(data, "created_at") ELSE JStr(""),
             updated_at |-> IF isString(Get(data, "updated_at"))
                              THEN Get(data, "updated_at") ELSE JStr("")])

\* the validator and the normalizer of each kind of entity
validate(kind, data) ==
  CASE kind = "contact" -> validateContact(data)
    [] kind = "group" -> validateGroup(data)
    [] kind = "template" -> validateTemplate(data)

normalize(kind, data) ==
  CASE kind = "contact" -> normalizeContact(data)
    [] kind = "group" -> normalizeGroup(data)
    [] kind = "template" -> normalizeTemplate(data)

\* items.map((item) => normalize(item)).filter((item) => item !== null)
NormalizeAll(items, kind) ==
  SelectSeq([i \in 1..Len(items) |-> normalize(kind, items[i])], LAMBDA item : item # JNull)

\* GroupService.getGroupSafe: after the transport's Result
getGroupSafeAfter(transportResult) ==
  LET result == annotate(transportResult, "getGroupSafe")
      context == [service |-> "GroupService", operation |-> "getGroupSafe",
                  stage |-> "validation"]
  IN IF isErr(result) THEN Return(result)
     ELSE IF ~validateGroup(result.value)
       THEN Return(err(MNotifyError("Invalid group response format", 0, result.value,
                                    context, NoCause)))
     ELSE IF ~Truthy(normalizeGroup(result.value))
       THEN Return(err(MNotifyError("Invalid group response format", 0, result.value,
                                    context, NoCause)))
     ELSE Return(ok(normalizeGroup(result.value)))

\* TemplateService.createTemplateSafe and getTemplateSafe: after the transport's Result
templateSafeAfter(transportResult, operation) ==
  LET result == annotateResultError(transportResult,
                  [service |-> "TemplateService", operation |-> operation])
      context == [service |-> "TemplateService", operation |-> operation,
                  stage |-> "validation"]
  IN IF isErr(result) THEN Return(result)
     ELSE IF ~validateTemplate(result.value)
       THEN Return(err(MNotifyError("Invalid template response format", 0, result.value,
                                    context, NoCause)))
     ELSE IF ~Truthy(normalizeTemplate(result.value))
       THEN Return(err(MNotifyError("Invalid template response format", 0, result.value,
                                    context, NoCause)))
     ELSE Return(ok(normalizeTemplate(result.value)))

\* ContactService.getContactsSafe: after the transport's Result
getContactsSafeAfter(transportResult) ==
  LET result == annotateResultError(transportResult,
                  [service |-> "ContactService", operation |-> "getContactsSafe"])
  IN IF isErr(result) THEN Return(result)
     ELSE IF ~isArray(result.value)
       THEN Return(err(MNotifyError("Invalid contacts response format", 0, result.value,
                                    [service |-> "ContactService",
                                     operation |-> "getContactsSafe",
                                     stage |-> "validation"], NoCause)))
     ELSE Return(ok(result.value))

\* GroupService.getGroupsSafe: after the transport's Result
getGroupsSafeAfter(transportResult) ==
  LET result == annotate(transportResult, "getGroupsSafe")
  IN IF isErr(result) THEN Return(result)
     ELSE IF ~isArray(result.value)
       THEN Return(err(MNotifyError("Invalid groups response format", 0, result.value,
                                    [service |-> "GroupService",
                                     operation |-> "getGroupsSafe",
                                     stage |-> "validation"], NoCause)))
     ELSE Return(ok(JArr(NormalizeAll(result.value.val, "group"))))

\* TemplateService.getTemplatesSafe: after the transport's Result
getTemplatesSafeAfter(transportResult) ==
  LET result == annotateResultError(transportResult,
                  [service |-> "TemplateService", operation |-> "getTemplatesSafe"])
  IN IF isErr(result) THEN Return(result)
     ELSE IF ~isArray(result.value)
       THEN Return(err(MNotifyError("Invalid templates response format", 0, result.value,
                                    [service |-> "TemplateService",
                                     operation |-> "getTemplatesSafe",
                                     stage |-> "validation"], NoCause)))
     ELSE Return(ok(JArr(NormalizeAll(result.value.val, "template"))))

\* the return statement an entity operation leaves by: the transport's error,
\* the validator's rejection, the normalizer's null, or the entity
EntityBranch(o, transportResult) ==
  LET kind == CASE o = "createContactSafe" -> "contact"
                [] o \in {"createGroupSafe", "getGroupSafe"} -> "group"
                [] o \in {"createTemplateSafe", "getTemplateSafe"} -> "template"
  IN IF isErr(transportResult) THEN "transport"
     ELSE IF ~validate(kind, transportResult.value) THEN "validator"
     ELSE IF ~Truthy(normalize(kind, transportResult.value)) THEN "normalizer"
     ELSE "entity"

ListAfter(o, transportResult) ==
  CASE o = "getContactsSafe" -> getContactsSafeAfter(transportResult)
    [] o = "getGroupsSafe" -> getGroupsSafeAfter(transportResult)
    [] o = "getTemplatesSafe" -> getTemplatesSafeAfter(transportResult)

\* what the API sends for an entity: contacts, groups and templates under
\* either name of each field, with fields missing or empty, and other values
RawEntities ==
  {ContactCreated, ContactAltId, ContactNoPhone,
   JObj([_id |-> JStr(""), id |-> JStr("c4"), phone |-> JStr("233200000000")]),
   GroupCreated, GroupNoName,
   JObj([id |-> JStr(""), _id |-> JStr("g3"), name |-> JStr("Staff")]),
   JObj([_id |-> JStr("t1"), title |-> JStr("Welcome"), body |-> JStr("Welcome {{name}}")]),
   JObj([id |-> JStr("t2"), name |-> JStr("Promo"), content |-> JStr("Sale"),
         status |-> JStr("approved"), created_at |-> JStr("2024-01-01"),
         updated_at |-> JStr("2024-01-02")]),
   JObj([id |-> JStr("t3"), name |-> JStr("Draft")]),
   JObj([id |-> JStr("t4"), name |-> JStr(""), title |-> JStr("Reminder"),
         content |-> JStr("Due")]),
   JNum(42), JNull}

\* a validator and its normalizer, on the same value
NormalizeCall(kind, data) ==
  /\ pure = NoEvaluation
  /\ pure' = [fn |-> "normalize", kind |-> kind, data |-> data,
              valid |-> validate(kind, data), output |-> normalize(kind, data)]
  /\ UNCHANGED <<calls, config, client, singleCallVars>>

\* an entity operation, from the Result its transport call resolved with
EntityCall(o, transportResult) ==
  /\ pure = NoEvaluation
  /\ pure' = [fn |-> "entity", op |-> o, transport |-> transportResult,
              branch |-> EntityBranch(o, transportResult),
              output |->
                CASE o = "createContactSafe" -> createContactSafeAfter(transportResult)
                  [] o = "createGroupSafe" -> createGroupSafeAfter(transportResult)
                  [] o = "getGroupSafe" -> getGroupSafeAfter(transportResult)
                  [] o \in {"createTemplateSafe", "getTemplateSafe"} ->
                       templateSafeAfter(transportResult, o)]
  /\ UNCHANGED <<calls, config, client, singleCallVars>>

\* a list operation, from the Result its transport call resolved with
ListCall(o, transportResult) ==
  /\ pure = NoEvaluation
  /\ pure' = [fn |-> "list", op |-> o, transport |-> transportResult,
              output |-> ListAfter(o, transportResult)]
  /\ UNCHANGED <<calls, config, client, singleCallVars>>

(***************************************************************************)
(* utils/helpers.ts: chunk                                                 *)
(***************************************************************************)
MaxLen == 3

\* the chunks the heap has room for: more than a call whose size is at least 1
\* pushes, which is at most one per element
ChunkLimit == MaxLen + 2

\* Array.prototype.slice: a negative index counts from the end, and both
\* indices are clamped to the array
RelativeIndex(index, len) ==
  IF index < 0 THEN (IF len + index > 0 THEN len + index ELSE 0)
  ELSE IF index < len THEN index ELSE len

Slice(array, start, end) ==
  LET k == RelativeIndex(start, Len(array))
      final == RelativeIndex(end, Len(array))
  IN IF final <= k THEN <<>> ELSE SubSeq(array, k + 1, final)

\* i += size
NextIndexByOne(i, size) == i + 1
NextIndex(i, size) == i + size

\* const chunks = []; let i = 0
ChunkCall(array, size) ==
  /\ pure = NoEvaluation
  /\ pure' = [fn |-> "chunk", array |-> array, size |-> size, i |-> 0,
              chunks |-> <<>>, pc |-> "loop"]
  /\ UNCHANGED <<calls, config, client, singleCallVars>>

\* one test of i < array.length: an iteration of the loop, or the return; a
\* push the heap has no room for ends the process
ChunkStep ==
  /\ pure.fn = "chunk"
  /\ pure.pc = "loop"
  /\ IF pure.i >= Len(pure.array) THEN pure' = [pure EXCEPT !.pc = "returned"]
     ELSE IF Len(pure.chunks) = ChunkLimit THEN pure' = [pure EXCEPT !.pc = "out of memory"]
     ELSE pure' = [pure EXCEPT
                    !.chunks = Append(pure.chunks,
                                      Slice(pure.array, pure.i, pure.i + pure.size)),
                    !.i = NextIndex(pure.i, pure.size)]
  /\ UNCHANGED <<calls, config, client, singleCallVars>>

(***************************************************************************)
(* The pure functions, each applied to inputs drawn from the sets above    *)
(***************************************************************************)
PureInit ==
  /\ Init
  /\ config = [apiKey |-> ApiKey, baseUrl |-> Undefined, timeout |-> Undefined,
               maxRetries |-> Undefined]

PureNext ==
  \/ \E r \in {ok(v) : v \in Values} \cup {err(e) : e \in Errors} : ResultNew(r)
  \/ \E fn \in Fns.value : ResultMap(fn)
  \/ \E fn \in Fns.error : ResultMapErr(fn)
  \/ \E fn \in Fns.result : ResultAndThen(fn)
  \/ \E d \in Values, recover \in Fns.recover, onOk \in Fns.value :
       ResultConsume(d, recover, onOk)
  \/ \E e \in {[error |-> MNotifyError("Not Found", 404, EmptyObj, NoContext, NoCause),
                 stack |-> "requestSafe"],
                [error |-> MNotifyError("Invalid group response format", 0, GroupNoName,
                                        [service |-> "GroupService", stage |-> "validation"],
                                        TypeError("fetch failed")),
                 stack |-> "createGroupSafe"]} :
       WithContextNew(e)
  \/ \E context \in ContextPartials : WithContextCall(context)
  \/ \E error \in UnknownValues, status \in {0, 500},
        context \in ContextPartials \cup {Undefined}, data \in {Undefined, EmptyObj} :
       FromUnknownCall(error, "Unknown error", status, context, data)
  \/ \E context \in ContextPartials, cause \in UnknownValues :
       ValidationErrorCall("Invalid response format", context, cause)
  \/ \E kind \in {"contact", "group", "template"}, data \in RawEntities :
       NormalizeCall(kind, data)
  \/ \E o \in {"createContactSafe", "createGroupSafe", "getGroupSafe",
                "createTemplateSafe", "getTemplateSafe"},
        r \in {ok(data) : data \in RawEntities}
               \cup {err(MNotifyError("Not Found", 404, EmptyObj, NoContext, NoCause))} :
       EntityCall(o, r)
  \/ \E o \in {"getContactsSafe", "getGroupsSafe", "getTemplatesSafe"},
        r \in {ok(JArr(list)) : list \in UNION {[1..n -> RawEntities] : n \in 0..MaxList}}
               \cup {ok(ContactCreated),
                     err(MNotifyError("Not Found", 404, EmptyObj, NoContext, NoCause))} :
       ListCall(o, r)
  \/ \E array \in UNION {[1..n -> Values] : n \in 0..MaxLen},
        size \in (0 - 1)..(MaxLen + 1) :
       ChunkCall(array, size)
  \/ ChunkStep

PureSpec == PureInit /\ [][PureNext]_vars

\* the loop of chunk keeps running while its condition holds
PureLiveSpec == PureSpec /\ WF_vars(ChunkStep)

(***************************************************************************)
(* Properties of the pure functions                                        *)
(***************************************************************************)
\* C21: every Ok value of an operation that returns an entity has the required
\* fields of its canonical shape, present and correctly typed, and every
\* element of the Ok list of getContactsSafe, getGroupsSafe and
\* getTemplatesSafe has them too.
IsContact(v) ==
  /\ isObject(v)
  /\ isString(Get(v, "_id"))
  /\ isString(Get(v, "phone"))
  /\ isString(Get(v, "firstname"))
  /\ isString(Get(v, "lastname"))

IsGroup(v) ==
  /\ isObject(v)
  /\ isString(Get(v, "id"))
  /\ isString(Get(v, "name"))
  /\ isNumber(Get(v, "contact_count"))
  /\ isString(Get(v, "created_at"))
  /\ isString(Get(v, "updated_at"))

IsTemplate(v) ==
  /\ isObject(v)
  /\ isString(Get(v, "id"))
  /\ isString(Get(v, "name"))
  /\ isString(Get(v, "content"))
  /\ isString(Get(v, "status"))
  /\ isString(Get(v, "created_at"))
  /\ isString(Get(v, "updated_at"))

HasShapeOf(o, v) ==
  CASE o \in {"createContactSafe", "getContactsSafe"} -> IsContact(v)
    [] o \in {"createGroupSafe", "getGroupSafe", "getGroupsSafe"} -> IsGroup(v)
    [] o \in {"createTemplateSafe", "getTemplateSafe", "getTemplatesSafe"} -> IsTemplate(v)

C21_OkEntitiesHaveCanonicalShape ==
  /\ (pure.fn = "entity" /\ isOk(pure.output.value))
       => HasShapeOf(pure.op, pure.output.value.value)
  /\ (pure.fn = "list" /\ isOk(pure.output.value))
       => /\ isArray(pure.output.value.value)
          /\ \A i \in DOMAIN pure.output.value.value.val :
               HasShapeOf(pure.op, pure.output.value.value.val[i])

\* the entity and list operations other than getContactsSafe do return
\* canonical entities only
OtherOpsReturnCanonicalShape ==
  (pure.fn = "list" /\ pure.op = "getContactsSafe") \/ C21_OkEntitiesHaveCanonicalShape

\* C22: a normalizer returns the canonical record, with defaults for the
\* optional fields that are missing, whenever every required field is a
\* non-empty string under at least one of its accepted names; it returns null
\* only when some required field is resolved by none of them.
Resolved(data, names) ==
  \E n \in names : isString(Get(data, n)) /\ Get(data, n).val # ""

RequiredNames(kind) ==
  CASE kind = "contact" -> {{"_id", "id"}, {"phone"}}
    [] kind = "group" -> {{"id", "_id"}, {"name", "group_name"}}
    [] kind = "template" -> {{"id", "_id"}, {"name", "title"}, {"content", "body"}}

DefaultOr(data, field, default) ==
  IF Get(data, field).type = default.type THEN Get(data, field) ELSE default

CanonicalRecord(kind, data, out) ==
  CASE kind = "contact" ->
         /\ IsContact(out)
         /\ Get(out, "firstname") = DefaultOr(data, "firstname", JStr(""))
         /\ Get(out, "lastname") = DefaultOr(data, "lastname", JStr(""))
    [] kind = "group" ->
         /\ IsGroup(out)
         /\ Get(out, "contact_count") = DefaultOr(data, "contact_count", JNum(0))
         /\ Get(out, "created_at") = DefaultOr(data, "created_at", JStr(""))
         /\ Get(out, "updated_at") = DefaultOr(data, "updated_at", JStr(""))
    [] kind = "template" ->
         /\ IsTemplate(out)
         /\ Get(out, "status") = DefaultOr(data, "status", JStr("pending"))
         /\ Get(out, "created_at") = DefaultOr(data, "created_at", JStr(""))
         /\ Get(out, "updated_at") = DefaultOr(data, "updated_at", JStr(""))

NormalizerCalled == pure.fn = "normalize"

C22_NormalizerNullOnlyWhenUnresolved ==
  NormalizerCalled =>
    IF isObject(pure.data) /\ \A names \in RequiredNames(pure.kind) : Resolved(pure.data, names)
      THEN CanonicalRecord(pure.kind, pure.data, pure.output)
      ELSE TRUE

\* normalizeGroup and normalizeTemplate do so
GroupAndTemplateNormalizersResolve ==
  (NormalizerCalled /\ pure.kind = "contact") \/ C22_NormalizerNullOnlyWhenUnresolved

\* C23: exactly one of isOk and isErr holds of every Result, however built;
\* unwrap returns an Ok's value and throws an Err's error itself; unwrapOr and
\* unwrapOrElse return an Ok's value, and the default or f(error) for an Err;
\* match runs the one handler of the variant and returns its result.
C23_VariantsAndConsumers ==
  /\ pure.fn = "Result" => (isOk(pure.r) # isErr(pure.r))
  /\ pure.fn = "ResultConsumed" =>
       /\ pure.isOk # pure.isErr
       /\ pure.isOk = pure.r.success
       /\ IF pure.r.success
            THEN /\ pure.unwrap = Return(pure.r.value)
                 /\ pure.unwrapOr = pure.r.value
                 /\ pure.unwrapOrElse = [value |-> pure.r.value, called |-> <<>>]
                 /\ pure.match = [value |-> pure.matcher.ok[pure.r.value],
                                  called |-> <<"ok">>]
            ELSE /\ pure.unwrap = Throw(pure.r.error)
                 /\ pure.unwrapOr = pure.defaultValue
                 /\ pure.unwrapOrElse = [value |-> pure.recover[pure.r.error],
                                         called |-> <<pure.r.error>>]
                 /\ pure.match = [value |-> pure.matcher.err[pure.r.error],
                                  called |-> <<"err">>]

C23_Witness ==
  /\ pure.fn = "ResultConsumed"
  /\ pure.isErr
  /\ pure.r.error = "e2"
  /\ pure.unwrapOr = MaxValue
  /\ pure.unwrapOrElse.value = MaxValue

\* C24: map applies f to an Ok's value and passes an Err on without calling
\* f; mapErr applies g to an Err's error and passes an Ok on without calling
\* g; andThen gives exactly the Result h(v) for an Ok, not wrapped again, and
\* passes an Err on without calling h.
PlainResult(r) ==
  IF r.success THEN r.value \in Values ELSE r.error \in Errors

C24_MapMapErrAndThen ==
  (pure.fn = "Result" /\ pure.last.op # "new") =>
    LET before == pure.last.before
        fn == pure.last.fn
    IN /\ pure.last.op = "map" =>
            IF before.success
              THEN pure.r = ok(fn[before.value]) /\ pure.last.called = <<before.value>>
              ELSE pure.r = err(before.error) /\ pure.last.called = <<>>
       /\ pure.last.op = "mapErr" =>
            IF before.success
              THEN pure.r = ok(before.value) /\ pure.last.called = <<>>
              ELSE pure.r = err(fn[before.error]) /\ pure.last.called = <<before.error>>
       /\ pure.last.op = "andThen" =>
            IF before.success
              THEN /\ pure.r = fn[before.value]
                   /\ PlainResult(pure.r)
                   /\ pure.last.called = <<before.value>>
              ELSE pure.r = err(before.error) /\ pure.last.called = <<>>

C24_Witness ==
  /\ pure.fn = "Result"
  /\ pure.steps = MaxChain
  /\ pure.last.op = "mapErr"
  /\ ~pure.last.before.success
  /\ pure.last.before.error = "e1"
  /\ pure.r = err("e2")

\* C25: withContext gives a new error and leaves the one it is called on as
\* it was; after any sequence of calls the context holds, for every key of
\* the original context or of a call, the value of the last call that
\* supplied it (the original's when no call did), and message, statusCode,
\* data, cause and stack are the original's.
SuppliedKeys == UNION {DOMAIN pure.supplied[i] : i \in DOMAIN pure.supplied}

LastSupplier(k) ==
  CHOOSE i \in DOMAIN pure.supplied :
    /\ k \in DOMAIN pure.supplied[i]
    /\ \A j \in DOMAIN pure.supplied : k \in DOMAIN pure.supplied[j] => j <= i

C25_WithContextAccumulates ==
  pure.fn = "withContext" =>
    LET original == pure.original.error
        current == pure.current.error
    IN /\ pure.supplied = <<>> => pure.current = pure.original
       /\ pure.supplied # <<>> =>
            /\ ContextKeys(current) = ContextKeys(original) \cup SuppliedKeys
            /\ \A k \in ContextKeys(current) :
                 current.context[k] =
                   IF k \in SuppliedKeys THEN pure.supplied[LastSupplier(k)][k]
                   ELSE original.context[k]
       /\ current.name = "MNotifyError"
       /\ current.message = original.message
       /\ current.statusCode = original.statusCode
       /\ current.data = original.data
       /\ current.cause = original.cause
       /\ pure.current.stack = pure.original.stack

C25_Witness ==
  /\ pure.fn = "withContext"
  /\ Len(pure.supplied) = MaxChain
  /\ pure.original.error.context # Undefined
  /\ pure.original.error.context.service = "GroupService"
  /\ pure.supplied[1] = [service |-> "ContactService", operation |-> "createContactSafe"]
  /\ pure.supplied[2] = [service |-> "SMSService"]
  /\ pure.current.error.context =
       [service |-> "SMSService", operation |-> "createContactSafe", stage |-> "validation"]

\* C26: for a size of at least 1, chunk returns chunks that, put together in
\* order, are the array; every chunk has between 1 and size elements, every
\* chunk but the last has size elements, and the empty array gives no chunk.
RECURSIVE Concat(_)
Concat(seqs) == IF seqs = <<>> THEN <<>> ELSE Head(seqs) \o Concat(Tail(seqs))

ChunkReturned == pure.fn = "chunk" /\ pure.pc = "returned"

C26_ChunksPartitionArray ==
  (ChunkReturned /\ pure.size >= 1) =>
    /\ Concat(pure.chunks) = pure.array
    /\ \A j \in DOMAIN pure.chunks :
         /\ Len(pure.chunks[j]) >= 1
         /\ Len(pure.chunks[j]) <= pure.size
         /\ j < Len(pure.chunks) => Len(pure.chunks[j]) = pure.size
    /\ pure.array = <<>> => pure.chunks = <<>>

C26_Witness ==
  /\ ChunkReturned
  /\ pure.size = 2
  /\ Len(pure.array) = 3
  /\ Len(pure.chunks) >= 2
  /\ Len(pure.chunks[Len(pure.chunks)]) < pure.size

\* C28: fromUnknown always gives an MNotifyError.  Of an MNotifyError it
\* keeps message, statusCode, data and cause and merges the given context
\* (giving the error itself when no context is given); of a generic Error it
\* takes the message (the fallback when that is empty) and makes the error
\* the cause, with the given status; of any other value it makes the cause,
\* with the fallback message and the given status.
C28_FromUnknownWraps ==
  pure.fn = "fromUnknown" =>
    LET error == pure.error
        out == pure.output
    IN /\ InstanceOf(out) = "MNotifyError"
       /\ InstanceOf(error) = "MNotifyError" =>
            /\ out.message = error.message
            /\ out.statusCode = error.statusCode
            /\ out.data = error.data
            /\ out.cause = error.cause
            /\ pure.context = Undefined => out = error
            /\ pure.context # Undefined =>
                 /\ ContextKeys(out) = ContextKeys(error) \cup DOMAIN pure.context
                 /\ \A k \in ContextKeys(out) :
                      out.context[k] = IF k \in DOMAIN pure.context
                                         THEN pure.context[k] ELSE error.context[k]
       /\ InstanceOf(error) = "Error" =>
            /\ out.cause = error
            /\ out.message = IF error.message = "" THEN pure.fallbackMessage
                              ELSE error.message
            /\ out.statusCode = pure.statusCode
       /\ InstanceOf(error) = "other" =>
            /\ out.cause = error
            /\ out.message = pure.fallbackMessage
            /\ out.statusCode = pure.statusCode

C28_Witness ==
  /\ pure.fn = "fromUnknown"
  /\ pure.error = TypeError("fetch failed")
  /\ pure.statusCode = 500
  /\ pure.output.message = "fetch failed"
  /\ pure.output.cause = TypeError("fetch failed")

\* C29: a value its validator accepts is one its normalizer returns a record
\* for, so no entity operation leaves by the branch taken when the
\* normalizer returns null.
C29_ValidatorAndNormalizerAgree ==
  /\ (NormalizerCalled /\ pure.valid) => pure.output # JNull
  /\ pure.fn = "entity" => pure.branch # "normalizer"

\* validateGroup with normalizeGroup, and validateTemplate with
\* normalizeTemplate, do agree
GroupAndTemplateValidatorsAgree ==
  \/ (NormalizerCalled /\ pure.kind = "contact")
  \/ (pure.fn = "entity" /\ pure.op = "createContactSafe")
  \/ C29_ValidatorAndNormalizerAgree

\* C30: chunk returns, whatever the array and the size.
C30_ChunkReturns ==
  (pure.fn = "chunk") ~> ChunkReturned

\* with a size of at least 1 it does
ChunkReturnsForPositiveSize ==
  (pure.fn = "chunk" /\ pure.size >= 1) ~> ChunkReturned

====
